---- MODULE Spec2Model ----
(***************************************************************************)
(* A model of the two walkthroughs of the repository:                      *)
(*   - the U-Net image segmentation lab (notebook cells and the training   *)
(*     script train.py it writes): the tf.data preprocessing pipeline,     *)
(*     build_unet and train_evaluate;                                      *)
(*   - the Kubernetes lab: the cluster lifecycle cells;                    *)
(*   - of the U-Net lab further: create_mask and show_predictions, the     *)
(*     stages of the train and test datasets, the batches model.fit draws, *)
(*     and the cells that submit the Vertex AI custom job.                 *)
(* Each part has its own specification; the custom job runs train.py.      *)
(***************************************************************************)
EXTENDS Integers, Sequences, FiniteSets, TLC

VARIABLES
    \* ---- preprocessing pipeline (read_and_preprocess, augment)
    variant,        \* which definitions run: "notebook" or "train.py"
    pcData,         \* position of the current element in the pipeline
    data,           \* the dataset element: [image, segmentation_mask]
    input_image,    \* read_and_preprocess: returned image
    input_mask,     \* read_and_preprocess: returned mask
    draw,           \* augment: the value of tf.random.uniform(())
    img,            \* augment: returned image
    mask,           \* augment: returned mask
    \* ---- train.py: train_evaluate and build_unet
    pcT,            \* position in train_evaluate / build_unet
    args,           \* the arguments fire.Fire passes to train_evaluate
    info,           \* tfds info: number of examples of the splits
    steps_per_epoch,
    trainable,      \* layer name -> its trainable attribute
    skips,          \* build_unet: the skip outputs still to be consumed
    x,              \* build_unet: shape <<h, w, channels>> of the tensor x
    idx,            \* build_unet: index of the decoder loop
    decoder,        \* build_unet: what each decoder iteration did
    model,          \* the tf.keras.Model: input/output shapes, compile state
    weights,        \* layer name -> number of updates applied to its weights
    stepsDone,      \* fit: training steps run so far
    disk,           \* saved models: set of [path, weights]
    events,         \* completed lifecycle steps of the model, in order
    error,          \* the exception that ended the run, or "none"
    \* ---- Kubernetes lab: the cluster walkthrough
    pcK,            \* index in Cells of the next code cell to run
    clusters,       \* the GKE clusters of the project, by name
    kubeconfig,     \* the cluster kubectl is authenticated against
    deployments,    \* the Deployments of the lab's cluster
    services,       \* its Services: name -> state of the external IP
    listing,        \* the output of the last 'gcloud container clusters list'
    shown,          \* the output of the last 'kubectl get service'
    commands,       \* the commands issued so far, in order
    created,        \* the create step brought the cluster into existence
    failures,       \* the commands that ended with a non-zero exit code
    inspections,    \* how often 'kubectl get service' has been run
    \* ---- notebook: show_predictions and create_mask
    pcP,            \* position in the loop of show_predictions
    pred_mask,      \* model.predict(image): batch x height x width x channels
    displayed,      \* the predicted mask handed to display
    taken,          \* the batches dataset.take(num) has produced
    \* ---- the tf.data pipelines of create_train_test_datasets, by element
    dsVariant,      \* which pipelines run: "notebook" or "train.py"
    split,          \* the dataset that is iterated: "train" or "test"
    source,         \* the elements of dataset[split]
    pass,           \* the pass over the source (repeat() starts a new one)
    todo,           \* the source elements still to come in this pass
    cur,            \* index in source of the element on its way, or 0
    stage,          \* the stages of the pipeline the element has been through
    elem,           \* the element on its way, as it is after `stage` stages
    udraw,          \* the draw augment made for this element, or NoDraw
    cached,         \* the contents of cache(): source index -> element
    appearances,    \* source index -> the flip decisions it has met so far
    \* ---- model.fit drawing batches from the training and test datasets
    bVariant,       \* whose fit runs: "notebook" or "train.py"
    num_examples,   \* info.splits[...].num_examples: [train, test]
    batch_size,     \* BATCH_SIZE / batch_size
    epochs,         \* EPOCHS / epochs
    train_steps,    \* STEPS_PER_EPOCH / steps_per_epoch
    validation_steps,
    pcB,            \* position in fit
    epoch,          \* the epoch fit is in, from 1
    step,           \* the training steps done in this epoch
    val_step,       \* the validation steps done in this epoch
    train_left,     \* elements the training iterator has left in its pass
    test_left,      \* elements the validation iterator has left in its pass
    train_passes,   \* passes over the training data begun so far
    drawn,          \* training batches drawn so far
    \* ---- notebook: the custom training job on Vertex AI
    pcC,            \* index in CloudCells of the next code cell to run
    account,        \* what the cells read from outside: project and clock
    kernel,         \* the notebook's global variables
    environ,        \* os.environ as set by %env
    trainer,        \* the directory ./pets_trainer and its files
    registry,       \* the images of the Artifact Registry
    buckets,        \* the Cloud Storage buckets of the project
    exists,         \* the bash variable of the bucket cell
    cloudLog,       \* the steps taken against files and services, in order
    jobs,           \* the worker-pool specifications submitted to Vertex AI
    jobState,       \* the state of the custom job
    bucketRuns      \* how often the bucket cell has been run

dataVars == <<variant, pcData, data, input_image, input_mask, draw, img, mask>>

trainVars == <<pcT, args, info, steps_per_epoch, trainable, skips, x, idx,
               decoder, model, weights, stepsDone, disk, events, error>>

clusterVars == <<pcK, clusters, kubeconfig, deployments, services, listing,
                 shown, commands, created, failures, inspections>>

predictVars == <<pcP, pred_mask, displayed, taken>>

dsVars == <<dsVariant, split, source, pass, todo, cur, stage, elem, udraw,
           cached, appearances>>

batchVars == <<bVariant, num_examples, batch_size, epochs, train_steps,
              validation_steps, pcB, epoch, step, val_step, train_left,
              test_left, train_passes, drawn>>

cloudVars == <<pcC, account, kernel, environ, trainer, registry, buckets,
              exists, cloudLog, jobs, jobState, bucketRuns>>

vars == <<dataVars, trainVars, clusterVars, predictVars, dsVars, batchVars,
          cloudVars>>

\* the parts do not touch each other's state
otherThanData ==
    <<trainVars, clusterVars, predictVars, dsVars, batchVars, cloudVars>>

otherThanTrain ==
    <<dataVars, clusterVars, predictVars, dsVars, batchVars, cloudVars>>

otherThanCluster ==
    <<dataVars, trainVars, predictVars, dsVars, batchVars, cloudVars>>

otherThanPredict ==
    <<dataVars, trainVars, clusterVars, dsVars, batchVars, cloudVars>>

otherThanBatches ==
    <<dataVars, trainVars, clusterVars, predictVars, dsVars, cloudVars>>

\* the job's container runs train.py, so the training state is not in here
otherThanCloud ==
    <<dataVars, clusterVars, predictVars, dsVars, batchVars>>

otherThanDs ==
    <<dataVars, trainVars, clusterVars, predictVars, batchVars, cloudVars>>

(***************************************************************************)
(* Tensors.  A tensor is [dtype, h, w, px] with px[r][c] the sequence of   *)
(* channel values of the pixel in row r, column c (channels last).         *)
(* A uint8 tensor holds integers.  A float32 tensor holds fixed-point      *)
(* numbers in units of 1/Unit: bilinear interpolation to IMG_SIZE with     *)
(* half-pixel centres has weights that are multiples of 1/(2*IMG_SIZE) in  *)
(* each direction, so every value it produces is a multiple of 1/Unit and  *)
(* the representation is exact.                                            *)
(***************************************************************************)
IMG_SIZE == 128

Unit == (2 * IMG_SIZE) * (2 * IMG_SIZE)

NoTensor == [dtype |-> "none", h |-> 0, w |-> 0, ch |-> 0, px |-> <<>>]

Max(a, b) == IF a > b THEN a ELSE b

Min(a, b) == IF a < b THEN a ELSE b

\* floor(a / b) for b > 0, also for negative a
FloorDiv(a, b) == IF a >= 0 THEN a \div b ELSE -((-a + b - 1) \div b)

\* tf.image.resize(images, size) with the default method (bilinear,
\* antialias=False): output pixel i of an axis of n input pixels reads the
\* input coordinate (i + 0.5) * n / size - 0.5 = InNum(i, n, size) / (2*size)
InNum(i, n, size) == (2 * i + 1) * n - size

Lower(i, n, size) == Max(FloorDiv(InNum(i, n, size), 2 * size), 0)

Upper(i, n, size) ==
    Min(FloorDiv(InNum(i, n, size) + 2 * size - 1, 2 * size), n - 1)

\* the interpolation weight, in units of 1/(2*size)
Lerp(i, n, size) ==
    InNum(i, n, size) - 2 * size * FloorDiv(InNum(i, n, size), 2 * size)

\* one output value of the bilinear kernel, in units of 1/(4 * size^2):
\* top + (bottom - top) * y_lerp, top = tl + (tr - tl) * x_lerp
Bilinear(tl, tr, bl, br, xl, yl, size) ==
    LET top == tl * (2 * size) + (tr - tl) * xl
        bottom == bl * (2 * size) + (br - bl) * xl
    IN  top * (2 * size) + (bottom - top) * yl

\* The result is float32 whatever the input dtype (the method is not
\* nearest-neighbour), and its values are NOT rescaled: a uint8 value v
\* becomes the float v.
resize(t, size) ==
    [dtype |-> "float32", h |-> size, w |-> size, ch |-> t.ch,
     px |-> [r \in 0..(size - 1) |-> [c \in 0..(size - 1) |->
        LET y0 == Lower(r, t.h, size)
            y1 == Upper(r, t.h, size)
            x0 == Lower(c, t.w, size)
            x1 == Upper(c, t.w, size)
        IN  [k \in 1..t.ch |->
                Bilinear(t.px[y0][x0][k], t.px[y0][x1][k],
                         t.px[y1][x0][k], t.px[y1][x1][k],
                         Lerp(c, t.w, size), Lerp(r, t.h, size), size)]]]]

\* the largest value of the integer dtypes
UINT8_MAX == 255

\* tf.image.convert_image_dtype(image, dtype): when the image already has
\* the requested dtype it is returned as it is; an integer image converted
\* to a float dtype is scaled by 1 / (largest value of its dtype).
convert_image_dtype(t, dtype) ==
    IF t.dtype = dtype
    THEN t
    ELSE [dtype |-> dtype, h |-> t.h, w |-> t.w, ch |-> t.ch,
          px |-> [r \in 0..(t.h - 1) |-> [c \in 0..(t.w - 1) |->
                    [k \in 1..t.ch |->
                        (t.px[r][c][k] * Unit) \div UINT8_MAX]]]]

\* mask -= 1 on a float32 tensor
SubtractOne(t) ==
    [t EXCEPT !.px = [r \in 0..(t.h - 1) |-> [c \in 0..(t.w - 1) |->
                        [k \in 1..t.ch |-> t.px[r][c][k] - Unit]]]]

\* tf.image.flip_left_right
flip_left_right(t) ==
    [t EXCEPT !.px = [r \in 0..(t.h - 1) |-> [c \in 0..(t.w - 1) |->
                        t.px[r][t.w - 1 - c]]]]

\* Faulty variant: the mask is left at its original size
read_and_preprocess_mask_not_resized(d) ==
    <<convert_image_dtype(resize(d.image, IMG_SIZE), "float32"),
      SubtractOne([d.segmentation_mask EXCEPT !.dtype = "float32"])>>

\* read_and_preprocess(data): the pair <<input_image, input_mask>>
read_and_preprocess(d) ==
    LET image0 == resize(d.image, IMG_SIZE)
        mask0 == resize(d.segmentation_mask, IMG_SIZE)
        image1 == convert_image_dtype(image0, "float32")
        mask1 == SubtractOne(mask0)
    IN  <<image1, mask1>>

\* AUGMENT_PROB of the notebook and the 0.5 of train.py, in hundredths
AUGMENT_PROB == 50

TRAIN_PY_THRESHOLD == 50

\* the condition of augment's if, on the one draw u (in hundredths)
FlipDecision(v, u) ==
    IF v = "notebook" THEN u < AUGMENT_PROB ELSE u > TRAIN_PY_THRESHOLD

\* Faulty variant: only the image is mirrored
augment_image_only(v, i, m, u) ==
    IF FlipDecision(v, u) THEN <<flip_left_right(i), m>> ELSE <<i, m>>

\* augment(img, mask): one draw decides the two flips
augment(v, i, m, u) ==
    IF FlipDecision(v, u)
    THEN <<flip_left_right(i), flip_left_right(m)>>
    ELSE <<i, m>>

(***************************************************************************)
(* The dataset elements.  An element is a scene of at most MaxPixels       *)
(* pixels, each of one of the three classes of the Oxford pet trimaps; the *)
(* mask holds the class label (1, 2 or 3) and the image the colour of the  *)
(* class, chosen so that the channel range 0..255 is covered.              *)
(***************************************************************************)
MaxPixels == 2

Labels == {1, 2, 3}

Colour(label) ==
    CASE label = 1 -> <<255, 255, 255>>
      [] label = 2 -> <<0, 0, 0>>
      [] OTHER     -> <<200, 100, 50>>

Shapes == {s \in (1..MaxPixels) \X (1..MaxPixels) : s[1] * s[2] <= MaxPixels}

Scenes ==
    UNION {[h : {s[1]}, w : {s[2]},
            cls : [0..(s[1] - 1) -> [0..(s[2] - 1) -> Labels]]] : s \in Shapes}

Element(sc) ==
    [image |-> [dtype |-> "uint8", h |-> sc.h, w |-> sc.w, ch |-> 3,
                px |-> [r \in 0..(sc.h - 1) |-> [c \in 0..(sc.w - 1) |->
                          Colour(sc.cls[r][c])]]],
     segmentation_mask |->
               [dtype |-> "uint8", h |-> sc.h, w |-> sc.w, ch |-> 1,
                px |-> [r \in 0..(sc.h - 1) |-> [c \in 0..(sc.w - 1) |->
                          <<sc.cls[r][c]>>]]]]

NoData == [image |-> NoTensor, segmentation_mask |-> NoTensor]

\* values tf.random.uniform(()) may return, in hundredths (it is in [0, 1))
Draws == {0, 49, 50, 99}

NoDraw == -1

Variants == {"notebook", "train.py"}

IdleData ==
    /\ variant = "none"
    /\ pcData = "idle"
    /\ data = NoData
    /\ input_image = NoTensor
    /\ input_mask = NoTensor
    /\ draw = NoDraw
    /\ img = NoTensor
    /\ mask = NoTensor

InitData ==
    /\ variant \in Variants
    /\ pcData = "next"
    /\ data = NoData
    /\ input_image = NoTensor
    /\ input_mask = NoTensor
    /\ draw = NoDraw
    /\ img = NoTensor
    /\ mask = NoTensor

\* the dataset yields its next element
NextElement ==
    /\ pcData \in {"next", "augmented"}
    /\ \E sc \in Scenes : data' = Element(sc)
    /\ pcData' = "source"
    /\ input_image' = NoTensor
    /\ input_mask' = NoTensor
    /\ draw' = NoDraw
    /\ img' = NoTensor
    /\ mask' = NoTensor
    /\ UNCHANGED <<otherThanData, variant>>

\* dataset.map(read_and_preprocess)
MapReadAndPreprocess ==
    /\ pcData = "source"
    /\ \E out \in {read_and_preprocess(data)} :
          /\ input_image' = out[1]
          /\ input_mask' = out[2]
    /\ pcData' = "preprocessed"
    /\ UNCHANGED <<otherThanData, variant, data, draw, img, mask>>

\* dataset.map(augment)
MapAugment ==
    /\ pcData = "preprocessed"
    /\ \E u \in Draws :
          /\ draw' = u
          /\ \E out \in {augment(variant, input_image, input_mask, u)} :
                /\ img' = out[1]
                /\ mask' = out[2]
    /\ pcData' = "augmented"
    /\ UNCHANGED <<otherThanData, variant, data, input_image, input_mask>>

NextData == NextElement \/ MapReadAndPreprocess \/ MapAugment

\* see the end of the module for the specifications

(***************************************************************************)
(* train.py: build_unet.  Shapes are <<height, width, channels>>.          *)
(***************************************************************************)
\* train_evaluate's defaults
DEFAULT_BATCH_SIZE == 64

DEFAULT_INPUT_SHAPE == <<128, 128, 3>>

DEFAULT_OUTPUT_CHANNELS == 3

DEFAULT_EPOCHS == 10

None == "None"

\* layer_names: the five MobileNetV2 activations that form the skip
\* connections, with the stride of each with respect to the input and its
\* number of channels
layer_names ==
    << [name |-> "block_1_expand_relu",  stride |-> 2,  channels |-> 96],
       [name |-> "block_3_expand_relu",  stride |-> 4,  channels |-> 144],
       [name |-> "block_6_expand_relu",  stride |-> 8,  channels |-> 192],
       [name |-> "block_13_expand_relu", stride |-> 16, channels |-> 576],
       [name |-> "block_16_project",     stride |-> 32, channels |-> 320] >>

\* every stride-2 stage of the backbone maps n pixels to ceil(n / 2)
CeilDiv(n, d) == (n + d - 1) \div d

\* down_stack(inputs): the shapes of base_model_outputs
down_stack_outputs(input_shape) ==
    [k \in 1..Len(layer_names) |->
        <<CeilDiv(input_shape[1], layer_names[k].stride),
          CeilDiv(input_shape[2], layer_names[k].stride),
          layer_names[k].channels>>]

\* upsample(filters, size, name): Conv2DTranspose(strides=2, padding='same')
\* + BatchNormalization + ReLU
upsample(filters, size, name) ==
    [name |-> name, filters |-> filters, size |-> size, strides |-> 2]

\* Faulty variant: the block from 32x32 to 64x64 is missing
UpStackOfThree ==
    << upsample(512, 3, "upsample_4x4_to_8x8"),
       upsample(256, 3, "upsample_8x8_to_16x16"),
       upsample(128, 3, "upsample_16x16_to_32x32") >>


up_stack ==
    << upsample(512, 3, "upsample_4x4_to_8x8"),
       upsample(256, 3, "upsample_8x8_to_16x16"),
       upsample(128, 3, "upsample_16x16_to_32x32"),
       upsample(64, 3, "upsample_32x32_to_64x64") >>

\* a transposed convolution with padding='same': each spatial dimension is
\* multiplied by the stride, the channels are the filters
ApplyConv2DTranspose(layer, shape) ==
    <<shape[1] * layer.strides, shape[2] * layer.strides, layer.filters>>

\* Concatenate() (axis -1) accepts only inputs of equal height and width
CanConcatenate(a, b) == a[1] = b[1] /\ a[2] = b[2]

Concatenate(a, b) == <<a[1], a[2], a[3] + b[3]>>

\* skips[:-1]
AllButLast(seq) == SubSeq(seq, 1, Len(seq) - 1)

\* reversed(seq)
Reversed(seq) == [k \in 1..Len(seq) |-> seq[Len(seq) + 1 - k]]

\* Faulty variant: the skips are taken in encoder order
DecoderSkipsNotReversed(outputs) == AllButLast(outputs)

\* skips = reversed(skips[:-1])
DecoderSkips(outputs) == Reversed(AllButLast(outputs))

\* zip(up_stack, skips) stops with the shorter of the two
ZipLen(a, b) == Min(Len(a), Len(b))

ENCODER == "pretrained_mobilenet"

LAST == "conv2d_transpose"

DecoderLayers == {up_stack[k].name : k \in 1..Len(up_stack)} \cup {LAST}

WeightLayers == {ENCODER} \cup DecoderLayers

\* Faulty variant: the encoder is left trainable
LeaveTrainable(tr) == tr

\* down_stack.trainable = False
FreezeDownStack(tr) == [tr EXCEPT ![ENCODER] = FALSE]

\* Faulty variant: 'if output_dir is not None'
IsNotNone(v) == v # None

\* the truth value of output_dir in 'if output_dir:'
Truthy(v) == v # None /\ v # ""

NoShape == <<0, 0, 0>>

NoArgs == [batch_size |-> 0, input_shape |-> NoShape, output_channels |-> 0,
           epochs |-> 0, output_dir |-> None]

NoInfo == [train |-> 0]

NoModel == [built |-> FALSE, inputs |-> NoShape, outputs |-> NoShape,
            compiled |-> FALSE, trainable_layers |-> {}]

(***************************************************************************)
(* The arguments and the dataset sizes the runs are checked for.           *)
(***************************************************************************)
MaxBatchSize == 2

MaxExamples == 3

MaxEpochs == 2

MaxOutputChannels == 3

\* the sizes of the training split: the small ones and one full batch of
\* the default size
ExampleCounts == (0..MaxExamples) \cup {DEFAULT_BATCH_SIZE}

InputShapes == {DEFAULT_INPUT_SHAPE, <<100, 100, 3>>}

OutputDirs == {None, "", "gs://bucket/pets/models/t"}

IdleTrain ==
    /\ pcT = "idle"
    /\ args = NoArgs
    /\ info = NoInfo
    /\ steps_per_epoch = 0
    /\ trainable = [l \in WeightLayers |-> TRUE]
    /\ skips = <<>>
    /\ x = NoShape
    /\ idx = 0
    /\ decoder = <<>>
    /\ model = NoModel
    /\ weights = [l \in WeightLayers |-> 0]
    /\ stepsDone = 0
    /\ disk = {}
    /\ events = <<>>
    /\ error = "none"

InitTrain ==
    /\ pcT = "main"
    /\ args = NoArgs
    /\ info = NoInfo
    /\ steps_per_epoch = 0
    /\ trainable = [l \in WeightLayers |-> TRUE]
    /\ skips = <<>>
    /\ x = NoShape
    /\ idx = 0
    /\ decoder = <<>>
    /\ model = NoModel
    /\ weights = [l \in WeightLayers |-> 0]
    /\ stepsDone = 0
    /\ disk = {}
    /\ events = <<>>
    /\ error = "none"

\* Faulty variant: the failing call is attempted again instead of ending the run
RaiseAndRetry(e) ==
    /\ pcT' = pcT
    /\ error' = e


\* the run ends with an exception: nothing below the raising call runs
Raise(e) ==
    /\ pcT' = "raised"
    /\ error' = e

\* fire.Fire(train_evaluate): the command line sets the arguments
fire_Fire ==
    /\ pcT = "main"
    /\ \E b \in 1..MaxBatchSize, sh \in InputShapes,
          oc \in 1..MaxOutputChannels, e \in 1..MaxEpochs, od \in OutputDirs :
          args' = [batch_size |-> b, input_shape |-> sh, output_channels |-> oc,
                   epochs |-> e, output_dir |-> od]
    /\ pcT' = "load"
    /\ UNCHANGED <<otherThanTrain, info, steps_per_epoch, trainable, skips, x, idx, decoder,
                   model, weights, stepsDone, disk, events, error>>

\* dataset, info = tfds.load(...)
tfds_load ==
    /\ pcT = "load"
    /\ \E n \in ExampleCounts : info' = [train |-> n]
    /\ pcT' = "datasets"
    /\ UNCHANGED <<otherThanTrain, args, steps_per_epoch, trainable, skips, x, idx, decoder,
                   model, weights, stepsDone, disk, events, error>>

\* tfds.load fails (the bucket cannot be read)
tfds_load_raises ==
    /\ pcT = "load"
    /\ Raise("tfds.load")
    /\ UNCHANGED <<otherThanTrain, args, info, steps_per_epoch, trainable, skips, x, idx,
                   decoder, model, weights, stepsDone, disk, events>>

\* create_train_test_datasets, steps_per_epoch
create_train_test_datasets ==
    /\ pcT = "datasets"
    /\ steps_per_epoch' = info.train \div args.batch_size
    /\ pcT' = "build_unet"
    /\ UNCHANGED <<otherThanTrain, args, info, trainable, skips, x, idx, decoder, model,
                   weights, stepsDone, disk, events, error>>

\* build_unet, up to the decoder loop: the backbone with its pretrained
\* weights, down_stack, down_stack.trainable = False, up_stack, inputs,
\* skips = down_stack(inputs), x = skips[-1], skips = reversed(skips[:-1])
build_unet_encoder ==
    /\ pcT = "build_unet"
    /\ trainable' = FreezeDownStack(trainable)
    /\ LET outputs == down_stack_outputs(args.input_shape)
       IN  /\ x' = outputs[Len(outputs)]
           /\ skips' = DecoderSkips(outputs)
    /\ idx' = 0
    /\ decoder' = <<>>
    /\ pcT' = "decoder"
    /\ UNCHANGED <<otherThanTrain, args, info, steps_per_epoch, model, weights, stepsDone,
                   disk, events, error>>

\* the pretrained weights cannot be downloaded
build_unet_raises ==
    /\ pcT = "build_unet"
    /\ Raise("MobileNetV2")
    /\ UNCHANGED <<otherThanTrain, args, info, steps_per_epoch, trainable, skips, x, idx,
                   decoder, model, weights, stepsDone, disk, events>>

\* one iteration of: for idx, (up, skip) in enumerate(zip(up_stack, skips)):
\*     x = up(x); x = Concatenate(name='expand_{idx}')([x, skip])
build_unet_decoder_step ==
    /\ pcT = "decoder"
    /\ idx < ZipLen(up_stack, skips)
    /\ LET up == up_stack[idx + 1]
           skip == skips[idx + 1]
           upped == ApplyConv2DTranspose(up, x)
       IN  IF CanConcatenate(upped, skip)
           THEN /\ x' = Concatenate(upped, skip)
                /\ decoder' = Append(decoder,
                      [up |-> up.name, concat |-> "expand_" \o ToString(idx),
                       x_in |-> x, x_up |-> upped, skip |-> skip])
                /\ idx' = idx + 1
                /\ UNCHANGED <<otherThanTrain, pcT, error>>
           ELSE /\ Raise("Concatenate")
                /\ UNCHANGED <<otherThanTrain, x, decoder, idx>>
    /\ UNCHANGED <<otherThanTrain, args, info, steps_per_epoch, trainable, skips, model,
                   weights, stepsDone, disk, events>>

\* last = Conv2DTranspose(output_channels, 3, strides=2, padding='same');
\* x = last(x); return tf.keras.Model(inputs=inputs, outputs=x)
build_unet_last ==
    /\ pcT = "decoder"
    /\ idx = ZipLen(up_stack, skips)
    /\ LET last == [name |-> LAST, filters |-> args.output_channels,
                    size |-> 3, strides |-> 2]
       IN  /\ x' = ApplyConv2DTranspose(last, x)
           /\ model' = [model EXCEPT !.built = TRUE,
                                     !.inputs = args.input_shape,
                                     !.outputs = ApplyConv2DTranspose(last, x)]
    /\ events' = Append(events, "build")
    /\ pcT' = "compile"
    /\ UNCHANGED <<otherThanTrain, args, info, steps_per_epoch, trainable, skips, idx,
                   decoder, weights, stepsDone, disk, error>>

\* model.compile(...): the layers that are trainable now are the ones fit
\* will update
model_compile ==
    /\ pcT = "compile"
    /\ model' = [model EXCEPT !.compiled = TRUE,
                    !.trainable_layers = {l \in WeightLayers : trainable[l]}]
    /\ events' = Append(events, "compile")
    /\ pcT' = "fit"
    /\ UNCHANGED <<otherThanTrain, args, info, steps_per_epoch, trainable, skips, x, idx,
                   decoder, weights, stepsDone, disk, error>>

\* the steps fit has to run
TotalSteps == args.epochs * steps_per_epoch

\* model.fit: one training step updates the weights of the trainable layers
model_fit_step ==
    /\ pcT = "fit"
    /\ stepsDone < TotalSteps
    /\ weights' = [l \in WeightLayers |->
                    IF l \in model.trainable_layers
                    THEN weights[l] + 1 ELSE weights[l]]
    /\ stepsDone' = stepsDone + 1
    /\ UNCHANGED <<otherThanTrain, pcT, args, info, steps_per_epoch, trainable, skips, x, idx,
                   decoder, model, disk, events, error>>

\* model.fit returns its history after the last step of the last epoch
model_fit_returns ==
    /\ pcT = "fit"
    /\ steps_per_epoch > 0
    /\ stepsDone = TotalSteps
    /\ events' = Append(events, "fit")
    /\ pcT' = "fitted"
    /\ UNCHANGED <<otherThanTrain, args, info, steps_per_epoch, trainable, skips, x, idx,
                   decoder, model, weights, stepsDone, disk, error>>

\* model.fit raises: at any step (out of memory, a read error of the data),
\* and always when an epoch has no step to run (its logs are empty)
model_fit_raises ==
    /\ pcT = "fit"
    /\ Raise("fit")
    /\ UNCHANGED <<otherThanTrain, args, info, steps_per_epoch, trainable, skips, x, idx,
                   decoder, model, weights, stepsDone, disk, events>>

\* Faulty variant: the save placed before the fit
model_save_before_fit ==
    /\ pcT = "fit"
    /\ stepsDone = 0
    /\ Truthy(args.output_dir)
    /\ disk = {}
    /\ disk' = disk \cup {[path |-> args.output_dir, weights |-> weights]}
    /\ events' = Append(events, "save")
    /\ UNCHANGED <<otherThanTrain, pcT, args, info, steps_per_epoch, trainable, skips, x, idx,
                   decoder, model, weights, stepsDone, error>>

\* if output_dir: model.save(output_dir)
model_save ==
    /\ pcT = "fitted"
    /\ Truthy(args.output_dir)
    /\ disk' = disk \cup {[path |-> args.output_dir, weights |-> weights]}
    /\ events' = Append(events, "save")
    /\ pcT' = "done"
    /\ UNCHANGED <<otherThanTrain, args, info, steps_per_epoch, trainable, skips, x, idx,
                   decoder, model, weights, stepsDone, error>>

\* model.save raises (the directory cannot be written)
model_save_raises ==
    /\ pcT = "fitted"
    /\ Truthy(args.output_dir)
    /\ Raise("save")
    /\ UNCHANGED <<otherThanTrain, args, info, steps_per_epoch, trainable, skips, x, idx,
                   decoder, model, weights, stepsDone, disk, events>>

\* output_dir is None or empty: train_evaluate returns without saving
return_without_save ==
    /\ pcT = "fitted"
    /\ ~Truthy(args.output_dir)
    /\ pcT' = "done"
    /\ UNCHANGED <<otherThanTrain, args, info, steps_per_epoch, trainable, skips, x, idx,
                   decoder, model, weights, stepsDone, disk, events, error>>

NextTrain ==
    \/ fire_Fire
    \/ tfds_load
    \/ tfds_load_raises
    \/ create_train_test_datasets
    \/ build_unet_encoder
    \/ build_unet_raises
    \/ build_unet_decoder_step
    \/ build_unet_last
    \/ model_compile
    \/ model_fit_step
    \/ model_fit_returns
    \/ model_fit_raises
    \/ model_save
    \/ model_save_raises
    \/ return_without_save

(***************************************************************************)
(* Kubernetes lab: the code cells of the notebook, run top to bottom.      *)
(* The exercise cells hold the command their instructions ask for.         *)
(***************************************************************************)
CLUSTER_NAME == "asl-cluster"

\* Faulty variant: the Service is inspected before get-credentials
CellsInspectBeforeCredentials ==
    << "env", "list", "create", "list", "get service", "get-credentials",
       "create deployment", "expose", "delete" >>

\* Faulty variant: the cleanup exercise is left out
CellsWithoutCleanup ==
    << "env", "list", "create", "list", "get-credentials",
       "create deployment", "expose", "get service" >>

\* the code cells of the notebook, in their order
Cells ==
    << "env", "list", "create", "list", "get-credentials",
       "create deployment", "expose", "get service", "delete" >>

\* the index past the last cell
End == Len(Cells) + 1

\* the cell to run next
Cell == IF pcK \in 1..Len(Cells) THEN Cells[pcK] ELSE "end"

DEPLOYMENT == "hello-server"

\* how many other clusters the project may hold
MaxOtherClusters == 2

OtherClusters == {"cluster-" \o ToString(k) : k \in 1..MaxOtherClusters}

\* how often the learner re-runs 'kubectl get service'
MaxInspections == 2

\* kubectl reaches the lab's cluster: it exists and get-credentials has
\* written its entry
Authenticated == kubeconfig = CLUSTER_NAME /\ CLUSTER_NAME \in clusters

IdleCluster ==
    /\ pcK = 0
    /\ clusters = {}
    /\ kubeconfig = None
    /\ deployments = {}
    /\ services = <<>>
    /\ listing = {}
    /\ shown = <<>>
    /\ commands = <<>>
    /\ created = FALSE
    /\ failures = {}
    /\ inspections = 0

\* the project may hold other clusters, and the lab's cluster may be left
\* over from an earlier run
InitCluster ==
    /\ pcK = 1
    /\ \E others \in SUBSET OtherClusters, left \in SUBSET {CLUSTER_NAME} :
          clusters = others \cup left
    /\ kubeconfig = None
    /\ deployments = {}
    /\ services = <<>>
    /\ listing = {}
    /\ shown = <<>>
    /\ commands = <<>>
    /\ created = FALSE
    /\ failures = {}
    /\ inspections = 0

\* CLUSTER_NAME, ZONE and os.environ
cell_env ==
    /\ Cell = "env"
    /\ pcK' = pcK + 1
    /\ UNCHANGED <<otherThanCluster, clusters, kubeconfig, deployments,
                   services, listing, shown, commands, created, failures,
                   inspections>>

\* !gcloud container clusters list
gcloud_clusters_list ==
    /\ Cell = "list"
    /\ listing' = clusters
    /\ commands' = Append(commands, "list")
    /\ pcK' = pcK + 1
    /\ UNCHANGED <<otherThanCluster, clusters, kubeconfig, deployments,
                   services, shown, created, failures, inspections>>

\* gcloud container clusters create $CLUSTER_NAME --zone $ZONE: blocks until
\* the cluster is up; fails when a cluster of that name exists
gcloud_clusters_create ==
    /\ Cell = "create"
    /\ IF CLUSTER_NAME \in clusters
       THEN /\ failures' = failures \cup {"create"}
            /\ UNCHANGED <<clusters, created>>
       ELSE /\ clusters' = clusters \cup {CLUSTER_NAME}
            /\ created' = TRUE
            /\ UNCHANGED failures
    /\ commands' = Append(commands, "create")
    /\ pcK' = pcK + 1
    /\ UNCHANGED <<otherThanCluster, kubeconfig, deployments, services,
                   listing, shown, inspections>>

\* gcloud container clusters get-credentials $CLUSTER_NAME --zone $ZONE
gcloud_get_credentials ==
    /\ Cell = "get-credentials"
    /\ IF CLUSTER_NAME \in clusters
       THEN kubeconfig' = CLUSTER_NAME /\ UNCHANGED failures
       ELSE failures' = failures \cup {"get-credentials"}
            /\ UNCHANGED kubeconfig
    /\ commands' = Append(commands, "get-credentials")
    /\ pcK' = pcK + 1
    /\ UNCHANGED <<otherThanCluster, clusters, deployments, services,
                   listing, shown, created, inspections>>

\* kubectl create deployment hello-server --image=.../hello-app:1.0
kubectl_create_deployment ==
    /\ Cell = "create deployment"
    /\ IF Authenticated /\ DEPLOYMENT \notin deployments
       THEN deployments' = deployments \cup {DEPLOYMENT} /\ UNCHANGED failures
       ELSE failures' = failures \cup {"create deployment"}
            /\ UNCHANGED deployments
    /\ commands' = Append(commands, "create deployment")
    /\ pcK' = pcK + 1
    /\ UNCHANGED <<otherThanCluster, clusters, kubeconfig, services, listing,
                   shown, created, inspections>>

\* kubectl expose deployment hello-server --type=LoadBalancer --port 8080
kubectl_expose ==
    /\ Cell = "expose"
    /\ IF Authenticated /\ DEPLOYMENT \in deployments
          /\ DEPLOYMENT \notin DOMAIN services
       THEN services' = [n \in {DEPLOYMENT} |-> "pending"]
            /\ UNCHANGED failures
       ELSE failures' = failures \cup {"expose"} /\ UNCHANGED services
    /\ commands' = Append(commands, "expose")
    /\ pcK' = pcK + 1
    /\ UNCHANGED <<otherThanCluster, clusters, kubeconfig, deployments,
                   listing, shown, created, inspections>>

\* the load balancer of the Service gets its external IP
external_ip_assigned ==
    /\ DEPLOYMENT \in DOMAIN services
    /\ services[DEPLOYMENT] = "pending"
    /\ services' = [services EXCEPT ![DEPLOYMENT] = "assigned"]
    /\ UNCHANGED <<otherThanCluster, pcK, clusters, kubeconfig, deployments,
                   listing, shown, commands, created, failures, inspections>>

\* what 'kubectl get service' does to the state
InspectService ==
    /\ IF Authenticated
       THEN shown' = services /\ UNCHANGED failures
       ELSE failures' = failures \cup {"get service"} /\ UNCHANGED shown
    /\ commands' = Append(commands, "get service")
    /\ inspections' = inspections + 1

\* !kubectl get service
kubectl_get_service ==
    /\ Cell = "get service"
    /\ InspectService
    /\ pcK' = pcK + 1
    /\ UNCHANGED <<otherThanCluster, clusters, kubeconfig, deployments,
                   services, listing, created>>

\* "Run the previous command again if the EXTERNAL-IP column ... is pending"
kubectl_get_service_again ==
    /\ pcK > 1
    /\ pcK <= Len(Cells) + 1
    /\ Cells[pcK - 1] = "get service"
    /\ inspections < MaxInspections
    /\ DEPLOYMENT \in DOMAIN shown
    /\ shown[DEPLOYMENT] = "pending"
    /\ InspectService
    /\ UNCHANGED <<otherThanCluster, pcK, clusters, kubeconfig, deployments,
                   services, listing, created>>

\* gcloud container clusters delete $CLUSTER_NAME --zone $ZONE --quiet:
\* blocks until the cluster and what runs on it are gone
gcloud_clusters_delete ==
    /\ Cell = "delete"
    /\ IF CLUSTER_NAME \in clusters
       THEN /\ clusters' = clusters \ {CLUSTER_NAME}
            /\ deployments' = {}
            /\ services' = <<>>
            /\ kubeconfig' = None
            /\ UNCHANGED failures
       ELSE /\ failures' = failures \cup {"delete"}
            /\ UNCHANGED <<clusters, deployments, services, kubeconfig>>
    /\ commands' = Append(commands, "delete")
    /\ pcK' = pcK + 1
    /\ UNCHANGED <<otherThanCluster, listing, shown, created, inspections>>

NextCluster ==
    \/ cell_env
    \/ gcloud_clusters_list
    \/ gcloud_clusters_create
    \/ gcloud_get_credentials
    \/ kubectl_create_deployment
    \/ kubectl_expose
    \/ external_ip_assigned
    \/ kubectl_get_service
    \/ kubectl_get_service_again
    \/ gcloud_clusters_delete

(***************************************************************************)
(* Notebook: show_predictions(dataset, num) and create_mask.  A tensor is  *)
(* a nested sequence, pred_mask[b][i][j][k] the score of channel k - 1 at  *)
(* pixel (i, j) of element b of the batch.                                 *)
(***************************************************************************)
\* Faulty variant: on ties the highest index is returned
ArgMaxHighestOnTies(v) ==
    CHOOSE k \in 0..(Len(v) - 1) :
        /\ \A j \in 1..Len(v) : v[j] <= v[k + 1]
        /\ \A j \in (k + 2)..Len(v) : v[j] < v[k + 1]

\* tf.argmax over a vector: the index of the largest value, the smallest
\* such index when the largest value occurs more than once
ArgMax(v) ==
    CHOOSE k \in 0..(Len(v) - 1) :
        /\ \A j \in 1..Len(v) : v[j] <= v[k + 1]
        /\ \A j \in 1..k : v[j] < v[k + 1]

\* tf.argmax(pred_mask, axis=-1)
argmax_last_axis(t) ==
    [b \in 1..Len(t) |->
        [i \in 1..Len(t[b]) |->
            [j \in 1..Len(t[b][i]) |-> ArgMax(t[b][i][j])]]]

\* pred_mask[..., tf.newaxis]
newaxis(t) ==
    [b \in 1..Len(t) |->
        [i \in 1..Len(t[b]) |->
            [j \in 1..Len(t[b][i]) |-> <<t[b][i][j]>>]]]

\* create_mask: argmax, new axis, first element of the batch
create_mask(p) == newaxis(argmax_last_axis(p))[1]

\* the scores (logits) of a pixel's channels
Scores == {-1, 0, 1}

\* the predictions the function is checked for: batches of up to MaxBatch
\* elements of up to MaxSide x MaxSide pixels, MaxScores scores in all
MaxBatch == 2

MaxSide == 2

MaxScores == 6

\* how many batches show_predictions takes
MaxNum == 2

PredictionDims ==
    {d \in (1..MaxBatch) \X (1..MaxSide) \X (1..MaxSide)
           \X (1..MaxOutputChannels) :
        d[1] * d[2] * d[3] * d[4] <= MaxScores}

Predictions ==
    UNION {[1..d[1] -> [1..d[2] -> [1..d[3] -> [1..d[4] -> Scores]]]] :
              d \in PredictionDims}

IdlePredict ==
    /\ pcP = "idle"
    /\ pred_mask = <<>>
    /\ displayed = <<>>
    /\ taken = 0

InitPredict ==
    /\ pcP = "take"
    /\ pred_mask = <<>>
    /\ displayed = <<>>
    /\ taken = 0

\* for image, mask in dataset.take(num): pred_mask = model.predict(image)
model_predict ==
    /\ pcP = "take"
    /\ taken < MaxNum
    /\ \E p \in Predictions : pred_mask' = p
    /\ taken' = taken + 1
    /\ pcP' = "predicted"
    /\ UNCHANGED <<otherThanPredict, displayed>>

\* display([image[0], mask[0], create_mask(pred_mask)])
display_prediction ==
    /\ pcP = "predicted"
    /\ displayed' = create_mask(pred_mask)
    /\ pcP' = "displayed"
    /\ UNCHANGED <<otherThanPredict, pred_mask, taken>>

\* plt.show() returns and the loop goes on; pred_mask is not read again
\* before its next assignment
next_iteration ==
    /\ pcP = "displayed"
    /\ pred_mask' = <<>>
    /\ displayed' = <<>>
    /\ pcP' = "take"
    /\ UNCHANGED <<otherThanPredict, taken>>

NextPredict == model_predict \/ display_prediction \/ next_iteration

(***************************************************************************)
(* The tf.data pipelines, element by element.  A pipeline is the sequence  *)
(* of its stages; an element of the source travels through the stages that *)
(* act on single elements, and is delivered through the ones that act on   *)
(* the stream (shuffle, batch, repeat, prefetch), which leave it as it is. *)
(***************************************************************************)
\* Faulty variant: train.py with the cache placed after the augmentation
TrainStagesCacheAfterAugment(v) ==
    IF v = "notebook"
    THEN << "map(read_and_preprocess)", "map(augment)", "batch", "repeat()" >>
    ELSE << "map(read_and_preprocess)", "map(augment)", "cache()",
            "shuffle", "batch", "repeat()", "prefetch" >>

\* Faulty variant: the training dataset is not repeated
TrainStagesWithoutRepeat(v) ==
    IF v = "notebook"
    THEN << "map(read_and_preprocess)", "map(augment)", "batch" >>
    ELSE << "map(read_and_preprocess)", "cache()", "map(augment)",
            "shuffle", "batch", "prefetch" >>

\* the training pipeline of the notebook (train = ...) and of train.py
\* (train_ds = ...)
TrainStages(v) ==
    IF v = "notebook"
    THEN << "map(read_and_preprocess)", "map(augment)", "batch", "repeat()" >>
    ELSE << "map(read_and_preprocess)", "cache()", "map(augment)",
            "shuffle", "batch", "repeat()", "prefetch" >>

\* Faulty variant: train.py augments its test data as the notebook does
TestStagesAugmented(v) ==
    << "map(read_and_preprocess)", "map(augment)", "batch" >>

\* the test pipeline of the notebook (test = ...) and of train.py
\* (test_ds = ...)
TestStages(v) ==
    IF v = "notebook"
    THEN << "map(read_and_preprocess)", "map(augment)", "batch" >>
    ELSE << "map(read_and_preprocess)", "batch" >>

StagesOf(v, sp) == IF sp = "train" THEN TrainStages(v) ELSE TestStages(v)

\* the stages that act on the stream and not on the single element
StreamStages == {"shuffle", "batch", "repeat()", "prefetch"}

HasStage(stages, s) == \E k \in 1..Len(stages) : stages[k] = s

\* the position of stage s in the pipeline, 0 when it has no such stage
StageIndex(stages, s) ==
    IF HasStage(stages, s)
    THEN CHOOSE k \in 1..Len(stages) :
            stages[k] = s /\ \A j \in 1..(k - 1) : stages[j] # s
    ELSE 0

\* the k-th picture of a split: one row of two pixels of different classes
Picture(sp, k) ==
    LET left == 1 + ((k + (IF sp = "train" THEN 0 ELSE 1)) % 3)
        right == 1 + ((k + (IF sp = "train" THEN 1 ELSE 2)) % 3)
    IN  Element([h |-> 1, w |-> 2,
                 cls |-> [r \in {0} |-> [c \in {0, 1} |->
                            IF c = 0 THEN left ELSE right]]])

\* the sizes of the splits and the passes the pipelines are followed for
SplitSizes == {1, 2}

MaxPasses == 2

NoElement == <<NoTensor, NoTensor>>

\* the draws followed through the passes: one on either side of 0.5
PassDraws == {49, 99}

Stages == StagesOf(dsVariant, split)

\* the stage the element on its way meets next
NextStage == IF stage < Len(Stages) THEN Stages[stage + 1] ELSE "end"

\* the element has left the pipeline
Delivered == cur # 0 /\ stage = Len(Stages)

IdleDs ==
    /\ dsVariant = "none"
    /\ split = "none"
    /\ source = <<>>
    /\ pass = 0
    /\ todo = {}
    /\ cur = 0
    /\ stage = 0
    /\ elem = NoElement
    /\ udraw = NoDraw
    /\ cached = <<>>
    /\ appearances = <<>>

InitDs ==
    /\ dsVariant \in Variants
    /\ split \in {"train", "test"}
    /\ \E n \in SplitSizes :
          /\ source = [k \in 1..n |-> Picture(split, k)]
          /\ todo = 1..n
          /\ appearances = [k \in 1..n |-> {}]
    /\ pass = 1
    /\ cur = 0
    /\ stage = 0
    /\ elem = NoElement
    /\ udraw = NoDraw
    /\ cached = <<>>

\* the pipeline is asked for its next element: the source yields it, or
\* cache() does when it holds it, and the stages before cache() do not run;
\* shuffle hands the elements of a pass on in any order
ds_next ==
    /\ cur = 0
    /\ todo # {}
    /\ \E k \in todo :
          /\ HasStage(Stages, "shuffle") \/ \A j \in todo : k <= j
          /\ cur' = k
          /\ IF k \in DOMAIN cached
             THEN /\ elem' = cached[k]
                  /\ stage' = StageIndex(Stages, "cache()")
             ELSE /\ elem' = source[k]
                  /\ stage' = 0
          /\ todo' = todo \ {k}
    /\ udraw' = NoDraw
    /\ UNCHANGED <<otherThanDs, dsVariant, split, source, pass, cached,
                   appearances>>

\* .map(read_and_preprocess)
ds_map_read_and_preprocess ==
    /\ cur # 0
    /\ NextStage = "map(read_and_preprocess)"
    /\ \E out \in {read_and_preprocess(elem)} : elem' = out
    /\ stage' = stage + 1
    /\ UNCHANGED <<otherThanDs, dsVariant, split, source, pass, todo, cur,
                   udraw, cached, appearances>>

\* .cache(): the first pass stores the element as it arrives
ds_cache ==
    /\ cur # 0
    /\ NextStage = "cache()"
    /\ cached' = [k \in DOMAIN cached \cup {cur} |->
                    IF k = cur THEN elem ELSE cached[k]]
    /\ stage' = stage + 1
    /\ UNCHANGED <<otherThanDs, dsVariant, split, source, pass, todo, cur,
                   elem, udraw, appearances>>

\* .map(augment): tf.random.uniform(()) is evaluated for this element
ds_map_augment ==
    /\ cur # 0
    /\ NextStage = "map(augment)"
    /\ \E u \in PassDraws :
          /\ udraw' = u
          /\ \E out \in {augment(dsVariant, elem[1], elem[2], u)} : elem' = out
          /\ appearances' = [appearances EXCEPT
                ![cur] = @ \cup {FlipDecision(dsVariant, u)}]
    /\ stage' = stage + 1
    /\ UNCHANGED <<otherThanDs, dsVariant, split, source, pass, todo, cur,
                   cached>>

\* shuffle, batch, repeat, prefetch: the element reaches the consumer
ds_deliver ==
    /\ cur # 0
    /\ NextStage \in StreamStages
    /\ \A k \in (stage + 1)..Len(Stages) : Stages[k] \in StreamStages
    /\ stage' = Len(Stages)
    /\ UNCHANGED <<otherThanDs, dsVariant, split, source, pass, todo, cur,
                   elem, udraw, cached, appearances>>

\* the consumer is done with the element
ds_consumed ==
    /\ Delivered
    /\ cur' = 0
    /\ stage' = 0
    /\ elem' = NoElement
    /\ udraw' = NoDraw
    /\ UNCHANGED <<otherThanDs, dsVariant, split, source, pass, todo, cached,
                   appearances>>

\* .repeat(): when the pass is over the next one begins
ds_repeat ==
    /\ cur = 0
    /\ todo = {}
    /\ HasStage(Stages, "repeat()")
    /\ pass < MaxPasses
    /\ pass' = pass + 1
    /\ todo' = DOMAIN source
    /\ UNCHANGED <<otherThanDs, dsVariant, split, source, cur, stage, elem,
                   udraw, cached, appearances>>

NextDs ==
    \/ ds_next
    \/ ds_map_read_and_preprocess
    \/ ds_cache
    \/ ds_map_augment
    \/ ds_deliver
    \/ ds_consumed
    \/ ds_repeat

(***************************************************************************)
(* model.fit(train, validation_data=test, epochs, steps_per_epoch,         *)
(* validation_steps): the batches fit draws from the two datasets.         *)
(***************************************************************************)
\* the notebook's BATCH_SIZE and EPOCHS of the local training
BATCH_SIZE == 8

NOTEBOOK_EPOCHS == 10

\* the sizes a split is given for batch size b: up to MaxExamples batches
SplitSizesFor(b) == 0..(b * MaxExamples)

\* dataset.batch(b) over n elements yields ceil(n / b) batches, the last one
\* partial when b does not divide n
BatchesPerPass(n, b) == CeilDiv(n, b)

\* the training iterator starts over when its pass is exhausted
TrainRepeats == HasStage(TrainStages(bVariant), "repeat()")

TestRepeats == HasStage(TestStages(bVariant), "repeat()")

\* Keras starts a new training iterator at an epoch only when the dataset
\* is finite and has exactly steps_per_epoch batches
RecreateTrainIterator ==
    /\ ~TrainRepeats
    /\ BatchesPerPass(num_examples.train, batch_size) = train_steps

IdleBatches ==
    /\ bVariant = "none"
    /\ num_examples = [train |-> 0, test |-> 0]
    /\ batch_size = 0
    /\ epochs = 0
    /\ train_steps = 0
    /\ validation_steps = 0
    /\ pcB = "idle"
    /\ epoch = 0
    /\ step = 0
    /\ val_step = 0
    /\ train_left = 0
    /\ test_left = 0
    /\ train_passes = 0
    /\ drawn = 0

\* the notebook trains with BATCH_SIZE and EPOCHS, train.py with its
\* arguments; the dataset is of any size
InitBatches ==
    /\ bVariant \in Variants
    /\ IF bVariant = "notebook"
       THEN batch_size = BATCH_SIZE /\ epochs = NOTEBOOK_EPOCHS
       ELSE batch_size \in 1..MaxBatchSize /\ epochs \in 1..MaxEpochs
    /\ \E n \in SplitSizesFor(batch_size), t \in SplitSizesFor(batch_size) :
          num_examples = [train |-> n, test |-> t]
    /\ train_steps = 0
    /\ validation_steps = 0
    /\ pcB = "steps"
    /\ epoch = 0
    /\ step = 0
    /\ val_step = 0
    /\ train_left = 0
    /\ test_left = 0
    /\ train_passes = 0
    /\ drawn = 0

\* STEPS_PER_EPOCH = num_examples // BATCH_SIZE and VALIDATION_STEPS alike;
\* train.batch(BATCH_SIZE).repeat(), test.batch(BATCH_SIZE); fit opens the
\* training iterator
compute_steps ==
    /\ pcB = "steps"
    /\ train_steps' = num_examples.train \div batch_size
    /\ validation_steps' = num_examples.test \div batch_size
    /\ train_left' = num_examples.train
    /\ train_passes' = 1
    /\ epoch' = 1
    /\ pcB' = "train"
    /\ UNCHANGED <<otherThanBatches, bVariant, num_examples, batch_size,
                   epochs, step, val_step, test_left, drawn>>

\* one training step: fit draws the next batch of the training dataset
fit_train_batch ==
    /\ pcB = "train"
    /\ step < train_steps
    /\ IF train_left > 0
       THEN /\ train_left' = train_left - Min(batch_size, train_left)
            /\ UNCHANGED train_passes
            /\ drawn' = drawn + 1
            /\ step' = step + 1
            /\ UNCHANGED pcB
       ELSE IF TrainRepeats /\ num_examples.train > 0
       THEN /\ train_left' = num_examples.train
                                - Min(batch_size, num_examples.train)
            /\ train_passes' = train_passes + 1
            /\ drawn' = drawn + 1
            /\ step' = step + 1
            /\ UNCHANGED pcB
       ELSE /\ pcB' = "out of data"
            /\ UNCHANGED <<train_left, train_passes, drawn, step>>
    /\ UNCHANGED <<otherThanBatches, bVariant, num_examples, batch_size,
                   epochs, train_steps, validation_steps, epoch, val_step,
                   test_left>>

\* the steps of the epoch are done: validation opens a new iterator on the
\* test dataset
fit_begin_validation ==
    /\ pcB = "train"
    /\ train_steps > 0
    /\ step = train_steps
    /\ test_left' = num_examples.test
    /\ val_step' = 0
    /\ pcB' = "validate"
    /\ UNCHANGED <<otherThanBatches, bVariant, num_examples, batch_size,
                   epochs, train_steps, validation_steps, epoch, step,
                   train_left, train_passes, drawn>>

\* an epoch of no steps leaves fit without logs: it raises
fit_raises_without_steps ==
    /\ pcB = "train"
    /\ train_steps = 0
    /\ pcB' = "raised"
    /\ UNCHANGED <<otherThanBatches, bVariant, num_examples, batch_size,
                   epochs, train_steps, validation_steps, epoch, step,
                   val_step, train_left, test_left, train_passes, drawn>>

\* one validation step: the next batch of the test dataset
fit_validation_batch ==
    /\ pcB = "validate"
    /\ val_step < validation_steps
    /\ IF test_left > 0
       THEN /\ test_left' = test_left - Min(batch_size, test_left)
            /\ val_step' = val_step + 1
            /\ UNCHANGED pcB
       ELSE IF TestRepeats /\ num_examples.test > 0
       THEN /\ test_left' = num_examples.test
                               - Min(batch_size, num_examples.test)
            /\ val_step' = val_step + 1
            /\ UNCHANGED pcB
       ELSE /\ pcB' = "out of data"
            /\ UNCHANGED <<test_left, val_step>>
    /\ UNCHANGED <<otherThanBatches, bVariant, num_examples, batch_size,
                   epochs, train_steps, validation_steps, epoch, step,
                   train_left, train_passes, drawn>>

\* validation is done: the next epoch begins, or fit returns
fit_end_epoch ==
    /\ pcB = "validate"
    /\ val_step = validation_steps
    /\ IF epoch < epochs
       THEN /\ epoch' = epoch + 1
            /\ step' = 0
            /\ pcB' = "train"
            /\ IF RecreateTrainIterator
               THEN /\ train_left' = num_examples.train
                    /\ train_passes' = train_passes + 1
               ELSE UNCHANGED <<train_left, train_passes>>
       ELSE /\ pcB' = "returned"
            /\ UNCHANGED <<epoch, step, train_left, train_passes>>
    /\ UNCHANGED <<otherThanBatches, bVariant, num_examples, batch_size,
                   epochs, train_steps, validation_steps, val_step, test_left,
                   drawn>>

\* a validation of no steps may end the run as the epoch of no steps does
fit_raises_without_validation_steps ==
    /\ pcB = "validate"
    /\ validation_steps = 0
    /\ pcB' = "raised"
    /\ UNCHANGED <<otherThanBatches, bVariant, num_examples, batch_size,
                   epochs, train_steps, validation_steps, epoch, step,
                   val_step, train_left, test_left, train_passes, drawn>>

NextBatches ==
    \/ compute_steps
    \/ fit_train_batch
    \/ fit_begin_validation
    \/ fit_raises_without_steps
    \/ fit_validation_batch
    \/ fit_end_epoch
    \/ fit_raises_without_validation_steps

(***************************************************************************)
(* Notebook: "(Optional) Train on Vertex AI".  The code cells that lead to *)
(* the custom job, run top to bottom.  Names of projects and buckets are   *)
(* sequences of tokens (words, and the separators between them), so that   *)
(* what grep -w matches can be computed.                                   *)
(***************************************************************************)
\* Faulty variant: the job is run before the image is built
CloudCellsRunBeforeBuild ==
    << "setup", "hyperparameters", "mkdir", "writefile train.py",
       "writefile Dockerfile", "image uri", "staging env", "bucket",
       "job variables", "custom job", "run", "builds submit" >>

\* the code cells of the notebook that the submission depends on, in order
CloudCells ==
    << "setup", "hyperparameters", "mkdir", "writefile train.py",
       "writefile Dockerfile", "image uri", "builds submit", "staging env",
       "bucket", "job variables", "custom job", "run" >>

CloudEnd == Len(CloudCells) + 1

CloudCell == IF pcC \in 1..Len(CloudCells) THEN CloudCells[pcC] ELSE "end"

REGION == "us-central1"

ARTIFACT_REGISTRY_DIR == "asl-artifact-repo"

IMAGE_NAME == "pets_trainer_tf"

TAG == "latest"

\* EPOCHS = 50 of the job's cell
JOB_EPOCHS == 50

\* str of a sequence of tokens
RECURSIVE Join(_)
Join(tokens) ==
    IF tokens = <<>> THEN "" ELSE Head(tokens) \o Join(Tail(tokens))

\* f"gs://{BUCKET}/pets/models/{TIMESTAMP}"
OutputDir(bucket, timestamp) ==
    "gs://" \o Join(bucket) \o "/pets/models/" \o timestamp

\* f"us-docker.pkg.dev/{PROJECT}/{ARTIFACT_REGISTRY_DIR}/{IMAGE_NAME}:{TAG}"
ImageUri(project) ==
    "us-docker.pkg.dev/" \o Join(project) \o "/" \o ARTIFACT_REGISTRY_DIR
        \o "/" \o IMAGE_NAME \o ":" \o TAG

\* f"gs://{BUCKET}-staging"
StagingBucket(bucket) == <<"gs", "://">> \o bucket \o <<"-", "staging">>

\* f"unet-custom-training-{TIMESTAMP}"
JobName(timestamp) == "unet-custom-training-" \o timestamp

\* the name of the bucket a gs:// URL stands for
BucketOf(url) == SubSeq(url, 3, Len(url))

\* the line 'gsutil ls' prints for a bucket
ListingLine(name) == <<"gs", "://">> \o name \o <<"/">>

\* the tokens made of word constituents (letters, digits, underscore)
IsWord(token) == token \notin {"://", "/", "-", ":", "."}

\* Faulty variant: the pattern without the slash that ends the bucket name
GrepPatternWithoutSlash(staging) == staging

\* ${STAGING_BUCKET}/
GrepPattern(staging) == staging \o <<"/">>

\* grep -w: the lines that hold the pattern with no word constituent right
\* before it and none right after it
grep_w(pattern, lines) ==
    {l \in lines :
        \E i \in 1..Len(l) :
            LET j == i + Len(pattern) - 1
            IN  /\ j <= Len(l)
                /\ SubSeq(l, i, j) = pattern
                /\ i = 1 \/ ~IsWord(l[i - 1])
                /\ j = Len(l) \/ ~IsWord(l[j + 1])}

\* Faulty variant: the job is not told where to save
ContainerArgsEpochsOnly(output_dir, eps) ==
    << [flag |-> "epochs", value |-> ToString(eps)] >>

\* [f"--output_dir={OUTPUT_DIR}", f"--epochs={EPOCHS}"]
ContainerArgs(output_dir, eps) ==
    << [flag |-> "output_dir", value |-> output_dir],
       [flag |-> "epochs", value |-> ToString(eps)] >>

\* the integers python-fire recognises in a flag's value
FireInts == 0..99

\* python-fire turns the text of a flag into a Python value
FireValue(text) ==
    IF \E n \in FireInts : ToString(n) = text
    THEN CHOOSE n \in FireInts : ToString(n) = text
    ELSE text

\* the defaults of train_evaluate
Defaults ==
    [batch_size |-> DEFAULT_BATCH_SIZE, input_shape |-> DEFAULT_INPUT_SHAPE,
     output_channels |-> DEFAULT_OUTPUT_CHANNELS, epochs |-> DEFAULT_EPOCHS,
     output_dir |-> None]

\* fire.Fire(train_evaluate) on the container's arguments: a parameter takes
\* the value of its flag, or its default
FireArgs(cargs) ==
    [f \in DOMAIN Defaults |->
        IF \E k \in 1..Len(cargs) : cargs[k].flag = f
        THEN FireValue(cargs[CHOOSE k \in 1..Len(cargs) :
                               cargs[k].flag = f].value)
        ELSE Defaults[f]]

\* the projects and the clock the cells are followed for
Projects == { <<"asl">>, <<"asl", "-", "lab">> }

Timestamps == {"20240131093000"}

\* the buckets a project may hold when the notebook is opened: its staging
\* bucket and two with names close to it
BucketNames(project) ==
    { project \o <<"-", "staging">>,
      project \o <<"-", "staging", "-", "old">>,
      <<"my", "-">> \o project \o <<"-", "staging">> }

\* how often the learner runs the bucket cell
MaxBucketRuns == 2

NoKernel ==
    [PROJECT |-> <<>>, BUCKET |-> <<>>, TIMESTAMP |-> None,
     OUTPUT_DIR |-> None, EPOCHS |-> 0,
     TRAINING_CONTAINER_IMAGE_URI |-> None, STAGING_BUCKET |-> <<>>,
     JOB_NAME |-> None, worker_pool_specs |-> <<>>, custom_job |-> <<>>]

NoEnviron == [STAGING_BUCKET |-> <<>>, REGION |-> None]

NoAccount == [project |-> <<>>, now |-> None]

NoTrainer == [isdir |-> FALSE, files |-> {}]

IdleCloud ==
    /\ pcC = 0
    /\ account = NoAccount
    /\ kernel = NoKernel
    /\ environ = NoEnviron
    /\ trainer = NoTrainer
    /\ registry = {}
    /\ buckets = {}
    /\ exists = {}
    /\ cloudLog = <<>>
    /\ jobs = <<>>
    /\ jobState = "none"
    /\ bucketRuns = 0

\* the notebook is opened in a project that may hold buckets, a directory
\* and an image of an earlier run
InitCloud ==
    /\ pcC = 1
    /\ \E p \in Projects, t \in Timestamps :
          /\ account = [project |-> p, now |-> t]
          /\ buckets \in SUBSET BucketNames(p)
          /\ registry \in {{}, {[uri |-> ImageUri(p), files |-> {"stale"}]}}
    /\ kernel = NoKernel
    /\ environ = NoEnviron
    /\ trainer \in {NoTrainer, [isdir |-> TRUE, files |-> {"stale"}]}
    /\ exists = {}
    /\ cloudLog = <<>>
    /\ jobs = <<>>
    /\ jobState = "none"
    /\ bucketRuns = 0

\* PROJECT, REGION, BUCKET, TIMESTAMP, OUTPUT_DIR
cell_setup ==
    /\ CloudCell = "setup"
    /\ kernel' = [kernel EXCEPT
          !.PROJECT = account.project,
          !.BUCKET = account.project,
          !.TIMESTAMP = account.now,
          !.OUTPUT_DIR = OutputDir(account.project, account.now)]
    /\ pcC' = pcC + 1
    /\ UNCHANGED <<otherThanCloud, trainVars, account, environ, trainer,
                   registry, buckets, exists, cloudLog, jobs, jobState,
                   bucketRuns>>

\* EPOCHS = 10, BATCH_SIZE = 8, ... of the local training
cell_hyperparameters ==
    /\ CloudCell = "hyperparameters"
    /\ kernel' = [kernel EXCEPT !.EPOCHS = NOTEBOOK_EPOCHS]
    /\ pcC' = pcC + 1
    /\ UNCHANGED <<otherThanCloud, trainVars, account, environ, trainer,
                   registry, buckets, exists, cloudLog, jobs, jobState,
                   bucketRuns>>

\* !mkdir ./pets_trainer: fails, and changes nothing, when it is there
cell_mkdir ==
    /\ CloudCell = "mkdir"
    /\ trainer' = [trainer EXCEPT !.isdir = TRUE]
    /\ pcC' = pcC + 1
    /\ UNCHANGED <<otherThanCloud, trainVars, account, kernel, environ,
                   registry, buckets, exists, cloudLog, jobs, jobState,
                   bucketRuns>>

\* what %%writefile does to the directory
WriteFile(name) ==
    IF trainer.isdir
    THEN /\ trainer' = [trainer EXCEPT !.files = (@ \ {"stale"}) \cup {name}]
         /\ cloudLog' = Append(cloudLog, "writefile " \o name)
    ELSE UNCHANGED <<trainer, cloudLog>>

\* %%writefile ./pets_trainer/train.py
cell_writefile_train_py ==
    /\ CloudCell = "writefile train.py"
    /\ WriteFile("train.py")
    /\ pcC' = pcC + 1
    /\ UNCHANGED <<otherThanCloud, trainVars, account, kernel, environ,
                   registry, buckets, exists, jobs, jobState, bucketRuns>>

\* %%writefile ./pets_trainer/Dockerfile
cell_writefile_Dockerfile ==
    /\ CloudCell = "writefile Dockerfile"
    /\ WriteFile("Dockerfile")
    /\ pcC' = pcC + 1
    /\ UNCHANGED <<otherThanCloud, trainVars, account, kernel, environ,
                   registry, buckets, exists, jobs, jobState, bucketRuns>>

\* ARTIFACT_REGISTRY_DIR, IMAGE_NAME, TAG, TRAINING_CONTAINER_IMAGE_URI
cell_image_uri ==
    /\ CloudCell = "image uri"
    /\ kernel' = [kernel EXCEPT
          !.TRAINING_CONTAINER_IMAGE_URI = ImageUri(kernel.PROJECT)]
    /\ pcC' = pcC + 1
    /\ UNCHANGED <<otherThanCloud, trainVars, account, environ, trainer,
                   registry, buckets, exists, cloudLog, jobs, jobState,
                   bucketRuns>>

\* !gcloud builds submit --tag $TRAINING_CONTAINER_IMAGE_URI pets_trainer:
\* builds the directory's Dockerfile and pushes the image under the tag,
\* in place of an image that is there; blocks until that is done
gcloud_builds_submit ==
    /\ CloudCell = "builds submit"
    /\ IF {"train.py", "Dockerfile"} \subseteq trainer.files
          /\ kernel.TRAINING_CONTAINER_IMAGE_URI # None
       THEN registry' =
               {i \in registry : i.uri # kernel.TRAINING_CONTAINER_IMAGE_URI}
               \cup {[uri |-> kernel.TRAINING_CONTAINER_IMAGE_URI,
                      files |-> trainer.files]}
       ELSE UNCHANGED registry
    /\ cloudLog' = Append(cloudLog, "builds submit")
    /\ pcC' = pcC + 1
    /\ UNCHANGED <<otherThanCloud, trainVars, account, kernel, environ,
                   trainer, buckets, exists, jobs, jobState, bucketRuns>>

\* STAGING_BUCKET = f"gs://{BUCKET}-staging"; %env STAGING_BUCKET, REGION
cell_staging_env ==
    /\ CloudCell = "staging env"
    /\ kernel' = [kernel EXCEPT !.STAGING_BUCKET = StagingBucket(kernel.BUCKET)]
    /\ environ' = [STAGING_BUCKET |-> StagingBucket(kernel.BUCKET),
                   REGION |-> REGION]
    /\ pcC' = pcC + 1
    /\ UNCHANGED <<otherThanCloud, trainVars, account, trainer, registry,
                   buckets, exists, cloudLog, jobs, jobState, bucketRuns>>

\* exists=$(gsutil ls -d | grep -w ${STAGING_BUCKET}/)
\* if [ -n "$exists" ]; then echo ...; else gsutil mb ...; gsutil ls; fi
RunBucketCell ==
    LET out == grep_w(GrepPattern(environ.STAGING_BUCKET),
                      {ListingLine(b) : b \in buckets})
    IN  /\ exists' = out
        /\ IF out # {}
           THEN /\ UNCHANGED buckets
                /\ cloudLog' = Append(cloudLog, "gsutil ls")
           ELSE /\ buckets' = buckets \cup {BucketOf(environ.STAGING_BUCKET)}
                /\ cloudLog' = cloudLog \o <<"gsutil ls", "gsutil mb">>
        /\ bucketRuns' = bucketRuns + 1

\* the bucket cell, in its turn
cell_bucket ==
    /\ CloudCell = "bucket"
    /\ RunBucketCell
    /\ pcC' = pcC + 1
    /\ UNCHANGED <<otherThanCloud, trainVars, account, kernel, environ,
                   trainer, registry, jobs, jobState>>

\* the bucket cell, run once more before the learner goes on
cell_bucket_again ==
    /\ pcC > 1
    /\ pcC <= Len(CloudCells)
    /\ CloudCells[pcC - 1] = "bucket"
    /\ bucketRuns < MaxBucketRuns
    /\ RunBucketCell
    /\ UNCHANGED <<otherThanCloud, trainVars, pcC, account, kernel, environ,
                   trainer, registry, jobs, jobState>>

\* DISPLAY_NAME, JOB_NAME, EPOCHS = 50
cell_job_variables ==
    /\ CloudCell = "job variables"
    /\ kernel' = [kernel EXCEPT !.JOB_NAME = JobName(kernel.TIMESTAMP),
                                !.EPOCHS = JOB_EPOCHS]
    /\ pcC' = pcC + 1
    /\ UNCHANGED <<otherThanCloud, trainVars, account, environ, trainer,
                   registry, buckets, exists, cloudLog, jobs, jobState,
                   bucketRuns>>

\* worker_pool_specs = [...]; custom_job = aiplatform.CustomJob(...)
cell_custom_job ==
    /\ CloudCell = "custom job"
    /\ LET specs ==
            << [machine_spec |-> [machine_type |-> "n1-standard-8",
                                  accelerator_type |-> "NVIDIA_TESLA_T4",
                                  accelerator_count |-> 1],
                replica_count |-> 1,
                container_spec |->
                    [image_uri |-> kernel.TRAINING_CONTAINER_IMAGE_URI,
                     args |-> ContainerArgs(kernel.OUTPUT_DIR,
                                            kernel.EPOCHS)]] >>
       IN  kernel' = [kernel EXCEPT
              !.worker_pool_specs = specs,
              !.custom_job = << [display_name |-> kernel.JOB_NAME,
                                 project |-> kernel.PROJECT,
                                 worker_pool_specs |-> specs,
                                 staging_bucket |-> kernel.STAGING_BUCKET] >>]
    /\ cloudLog' = Append(cloudLog, "CustomJob")
    /\ pcC' = pcC + 1
    /\ UNCHANGED <<otherThanCloud, trainVars, account, environ, trainer,
                   registry, buckets, exists, jobs, jobState, bucketRuns>>

\* the image the job's one worker pool names is in the registry
ImageOfJob(job) ==
    {i \in registry : i.uri = job.worker_pool_specs[1].container_spec.image_uri}

\* custom_job.run(): submits the job and blocks until it has ended; the job
\* fails at once when its image cannot be pulled
custom_job_run ==
    /\ CloudCell = "run"
    /\ jobState = "none"
    /\ kernel.custom_job # <<>>
    /\ jobs' = Append(jobs, kernel.custom_job[1])
    /\ cloudLog' = Append(cloudLog, "run")
    /\ IF ImageOfJob(kernel.custom_job[1]) # {}
       THEN jobState' = "submitted" /\ UNCHANGED pcC
       ELSE jobState' = "failed" /\ pcC' = pcC + 1
    /\ UNCHANGED <<otherThanCloud, trainVars, account, kernel, environ,
                   trainer, registry, buckets, exists, bucketRuns>>

\* ENTRYPOINT ["python", "train.py"] with the job's args: fire.Fire calls
\* train_evaluate
container_entrypoint ==
    /\ jobState = "submitted"
    /\ pcT = "idle"
    /\ args' = FireArgs(jobs[Len(jobs)].worker_pool_specs[1]
                            .container_spec.args)
    /\ pcT' = "load"
    /\ jobState' = "running"
    /\ UNCHANGED <<otherThanCloud, info, steps_per_epoch, trainable, skips, x,
                   idx, decoder, model, weights, stepsDone, disk, events,
                   error>>
    /\ UNCHANGED <<pcC, account, kernel, environ, trainer, registry, buckets,
                   exists, cloudLog, jobs, bucketRuns>>

\* the container has exited: run() returns, or raises when the job failed
custom_job_run_returns ==
    /\ jobState = "running"
    /\ pcT \in {"done", "raised"}
    /\ jobState' = IF pcT = "done" THEN "succeeded" ELSE "failed"
    /\ pcC' = pcC + 1
    /\ UNCHANGED <<otherThanCloud, trainVars, account, kernel, environ,
                   trainer, registry, buckets, exists, cloudLog, jobs,
                   bucketRuns>>

\* with the cells' arguments output_dir is never empty, so train_evaluate's
\* return without a save is not among the steps
NextCloud ==
    \/ cell_setup
    \/ cell_hyperparameters
    \/ cell_mkdir
    \/ cell_writefile_train_py
    \/ cell_writefile_Dockerfile
    \/ cell_image_uri
    \/ gcloud_builds_submit
    \/ cell_staging_env
    \/ cell_bucket
    \/ cell_bucket_again
    \/ cell_job_variables
    \/ cell_custom_job
    \/ custom_job_run
    \/ container_entrypoint
    \/ custom_job_run_returns
    \/ tfds_load
    \/ tfds_load_raises
    \/ create_train_test_datasets
    \/ build_unet_encoder
    \/ build_unet_raises
    \/ build_unet_decoder_step
    \/ build_unet_last
    \/ model_compile
    \/ model_fit_step
    \/ model_fit_returns
    \/ model_fit_raises
    \/ model_save
    \/ model_save_raises

(***************************************************************************)
(* Specifications                                                          *)
(***************************************************************************)
InitPipeline ==
    /\ InitData /\ IdleTrain /\ IdleCluster /\ IdlePredict /\ IdleDs
    /\ IdleBatches /\ IdleCloud

SpecPipeline == InitPipeline /\ [][NextData]_vars

InitTraining ==
    /\ InitTrain /\ IdleData /\ IdleCluster /\ IdlePredict /\ IdleDs
    /\ IdleBatches /\ IdleCloud

SpecTrain == InitTraining /\ [][NextTrain]_vars

InitWalkthrough ==
    /\ InitCluster /\ IdleData /\ IdleTrain /\ IdlePredict /\ IdleDs
    /\ IdleBatches /\ IdleCloud

SpecCluster == InitWalkthrough /\ [][NextCluster]_vars

InitPredictions ==
    /\ InitPredict /\ IdleData /\ IdleTrain /\ IdleCluster /\ IdleDs
    /\ IdleBatches /\ IdleCloud

SpecPredict == InitPredictions /\ [][NextPredict]_vars

InitDatasets ==
    /\ InitDs /\ IdleData /\ IdleTrain /\ IdleCluster /\ IdlePredict
    /\ IdleBatches /\ IdleCloud

SpecDatasets == InitDatasets /\ [][NextDs]_vars

InitFit ==
    /\ InitBatches /\ IdleData /\ IdleTrain /\ IdleCluster /\ IdlePredict
    /\ IdleDs /\ IdleCloud

SpecBatches == InitFit /\ [][NextBatches]_vars

InitSubmission ==
    /\ InitCloud /\ IdleTrain /\ IdleData /\ IdleCluster /\ IdlePredict
    /\ IdleDs /\ IdleBatches

SpecCloud == InitSubmission /\ [][NextCloud]_vars

(***************************************************************************)
(* Properties of build_unet and train_evaluate                             *)
(***************************************************************************)
IsPrefix(a, b) == Len(a) <= Len(b) /\ a = SubSeq(b, 1, Len(a))

Range(seq) == {seq[k] : k \in 1..Len(seq)}

Pow2(k) == IF k = 0 THEN 1 ELSE IF k = 1 THEN 2 ELSE IF k = 2 THEN 4 ELSE 8

\* C1: for a 128x128 input (encoder outputs 64, 32, 16, 8, 4) the decoder
\* applies exactly four upsampling blocks, each doubling the resolution of
\* x (4->8->16->32->64); after each block x has the resolution of the skip
\* it is concatenated with (skips 8, 16, 32, 64 in this order); the final
\* transposed convolution yields 128 x 128 x output_channels.
C1_DecoderShapes ==
    (args.input_shape[1] = 128 /\ args.input_shape[2] = 128) =>
        /\ error # "Concatenate"
        /\ Len(decoder) <= 4
        /\ \A k \in 1..Len(decoder) :
              /\ decoder[k].x_in[1] = 4 * Pow2(k - 1)
              /\ decoder[k].x_in[2] = 4 * Pow2(k - 1)
              /\ decoder[k].x_up[1] = 2 * decoder[k].x_in[1]
              /\ decoder[k].x_up[2] = 2 * decoder[k].x_in[2]
              /\ decoder[k].skip[1] = decoder[k].x_up[1]
              /\ decoder[k].skip[2] = decoder[k].x_up[2]
              /\ decoder[k].skip[1] = 8 * Pow2(k - 1)
        /\ model.built =>
              /\ Len(decoder) = 4
              /\ model.outputs = <<128, 128, args.output_channels>>
              /\ model.outputs[1] = model.inputs[1]
              /\ model.outputs[2] = model.inputs[2]

\* the model of a 128x128 input is built
C1_Witness ==
    /\ model.built
    /\ args.input_shape = <<128, 128, 3>>
    /\ Len(decoder) = 4
    /\ decoder[4].x_up[1] = 64

\* C6: down_stack.trainable is False before the model is composed and
\* compiled, and over any number of training steps of fit only the decoder
\* weights (the four upsample blocks and the last layer) change: every
\* encoder weight keeps its pretrained value.
C6_EncoderFrozen ==
    /\ weights[ENCODER] = 0
    /\ (model.built \/ model.compiled) => ~trainable[ENCODER]
    /\ model.compiled => model.trainable_layers = DecoderLayers
    /\ \A l \in DecoderLayers : weights[l] = stepsDone

\* fit has run several steps and returned
C6_Witness ==
    /\ pcT = "fitted"
    /\ stepsDone >= 2
    /\ weights[LAST] = stepsDone
    /\ weights[ENCODER] = 0

\* C7 as claimed: every run whose fit completes is followed by a save of
\* the model to a directory.
C7_SavedAfterEveryFit ==
    (pcT = "done" /\ "fit" \in Range(events)) => disk # {}

\* C7 as amended: a run of train_evaluate that returns has saved the model
\* (as fit left it) to output_dir when output_dir is non-empty, and has
\* saved nothing when output_dir is None or empty; nothing is saved
\* before fit has completed or when the run raises.
C7_SavedIffOutputDir ==
    /\ pcT = "done" =>
          disk = IF args.output_dir \in {None, ""}
                 THEN {}
                 ELSE {[path |-> args.output_dir, weights |-> weights]}
    /\ pcT # "done" => disk = {}

\* a run that returned after saving
C7_Witness ==
    /\ pcT = "done"
    /\ disk # {}
    /\ stepsDone > 0

\* C8: the lifecycle of the model in train_evaluate is build -> compile ->
\* fit -> save: no training step before the model is built and compiled,
\* no save before fit has returned, no training step after the save.
C8_LifecycleOrder ==
    /\ IsPrefix(events, <<"build", "compile", "fit", "save">>)
    /\ stepsDone > 0 => IsPrefix(<<"build", "compile">>, events)
    /\ disk # {} => events = <<"build", "compile", "fit", "save">>
    /\ \A f \in disk : f.weights = weights

\* a run that went through the four steps
C8_Witness ==
    /\ pcT = "done"
    /\ events = <<"build", "compile", "fit", "save">>
    /\ stepsDone > 0

(***************************************************************************)
(* Properties of the cluster walkthrough                                   *)
(***************************************************************************)
\* seq with every run of equal consecutive entries collapsed to one entry
RECURSIVE Dedup(_)
Dedup(seq) ==
    IF Len(seq) <= 1 THEN seq
    ELSE IF seq[1] = seq[2] THEN Dedup(Tail(seq))
         ELSE <<seq[1]>> \o Dedup(Tail(seq))

KubectlCommands == {"create deployment", "expose", "get service"}

\* entry i of the log is preceded by an entry c
Preceded(i, c) == \E j \in 1..(i - 1) : commands[j] = c

\* no kubectl command is issued before the cluster has been created and
\* authenticated, each reaches the cluster, and nothing follows the delete
KubectlOnlyOnLiveCluster ==
    /\ \A i \in 1..Len(commands) :
          commands[i] \in KubectlCommands =>
              /\ Preceded(i, "create")
              /\ Preceded(i, "get-credentials")
              /\ ~Preceded(i, "delete")
    /\ Cell \in KubectlCommands => Authenticated
    /\ failures \cap KubectlCommands = {}
    /\ \A i \in 1..Len(commands) : commands[i] = "delete" => i = Len(commands)

Preprocessed == pcData \in {"preprocessed", "augmented"}

Rows(t) == 0..(t.h - 1)

Cols(t) == 0..(t.w - 1)

\* the shape a tensor declares is the shape of its pixel array
WellShaped(t, h, w, ch) ==
    /\ t.h = h /\ t.w = w /\ t.ch = ch
    /\ DOMAIN t.px = 0..(h - 1)
    /\ \A r \in 0..(h - 1) :
          /\ DOMAIN t.px[r] = 0..(w - 1)
          /\ \A c \in 0..(w - 1) : Len(t.px[r][c]) = ch

\* C2: every value of the mask returned by read_and_preprocess is one of
\* the integers 0, 1, 2 (labels 1, 2, 3 resized and shifted by one).
C2_MaskValuesAreLabels ==
    Preprocessed =>
        \A r \in Rows(input_mask) : \A c \in Cols(input_mask) :
            input_mask.px[r][c][1] \in {0, Unit, 2 * Unit}

\* C3: every channel value of the image returned by read_and_preprocess
\* lies in [0, 1].
C3_ImageValuesInUnitInterval ==
    Preprocessed =>
        \A r \in Rows(input_image) : \A c \in Cols(input_image) :
            \A k \in 1..input_image.ch :
                /\ 0 <= input_image.px[r][c][k]
                /\ input_image.px[r][c][k] <= Unit

\* C4: whatever the height and width of the source image and mask,
\* read_and_preprocess returns an image and a mask of the same spatial
\* dimensions, 128 x 128, and augment preserves them.
C4_SameSpatialDims ==
    /\ Preprocessed =>
          /\ WellShaped(input_image, IMG_SIZE, IMG_SIZE, 3)
          /\ WellShaped(input_mask, IMG_SIZE, IMG_SIZE, 1)
    /\ pcData = "augmented" =>
          /\ WellShaped(img, input_image.h, input_image.w, 3)
          /\ WellShaped(mask, input_mask.h, input_mask.w, 1)
          /\ img.h = mask.h /\ img.w = mask.w

\* a source that is not square, preprocessed and mirrored
C4_Witness ==
    /\ pcData = "augmented"
    /\ data.image.h # data.image.w
    /\ data.image.h # IMG_SIZE
    /\ img # input_image

\* C5: augment mirrors the image and the mask together: both are flipped
\* left-right or neither is, by the one draw (notebook: draw < AUGMENT_PROB,
\* train.py: draw > 0.5), so column c of the returned image and column c of
\* the returned mask come from the same column of the inputs.
C5_FlippedTogether ==
    pcData = "augmented" =>
        LET flipped == \/ variant = "notebook" /\ draw < AUGMENT_PROB
                       \/ variant = "train.py" /\ draw > TRAIN_PY_THRESHOLD
        IN  IF flipped
            THEN \A r \in Rows(img) : \A c \in Cols(img) :
                    /\ img.px[r][c] = input_image.px[r][IMG_SIZE - 1 - c]
                    /\ mask.px[r][c] = input_mask.px[r][IMG_SIZE - 1 - c]
            ELSE img = input_image /\ mask = input_mask

\* a scene that is not symmetric, mirrored by train.py's augment
C5_Witness ==
    /\ pcData = "augmented"
    /\ variant = "train.py"
    /\ img # input_image
    /\ mask # input_mask
    /\ mask = flip_left_right(input_mask)

(***************************************************************************)
(* Properties of the failure handling and of the decoder loop              *)
(***************************************************************************)
\* the positions of train_evaluate in program order
StepRank(pc) ==
    CASE pc = "idle" -> 0
      [] pc = "main" -> 1
      [] pc = "load" -> 2
      [] pc = "datasets" -> 3
      [] pc = "build_unet" -> 4
      [] pc = "decoder" -> 5
      [] pc = "compile" -> 6
      [] pc = "fit" -> 7
      [] pc = "fitted" -> 8
      [] OTHER -> 9

\* the exception each external call raises when it fails
FailureOf(pc) ==
    CASE pc = "load" -> "tfds.load"
      [] pc = "build_unet" -> "MobileNetV2"
      [] pc = "decoder" -> "Concatenate"
      [] pc = "fit" -> "fit"
      [] pc = "fitted" -> "save"
      [] OTHER -> "none"

\* C12: no retries or recovery in train_evaluate: every step (load, build,
\* compile, fit, save) is entered at most once per run, the position only
\* moves forward; a failure is the failure of the step that was running, it
\* ends the run where it happened (no later step runs, nothing is saved,
\* nothing more is recorded), and after a failed fit nothing is on disk.
C12_NoRetries ==
    [][ /\ error = "none"
        /\ pcT' # pcT => StepRank(pcT') > StepRank(pcT)
        /\ Len(events') >= Len(events)
        /\ \A s \in {"build", "compile", "fit", "save"} :
              Cardinality({k \in 1..Len(events') : events'[k] = s}) <= 1
        /\ error' # "none" =>
              /\ error' = FailureOf(pcT)
              /\ pcT' = "raised"
              /\ disk' = disk
              /\ events' = events
              /\ weights' = weights
        /\ error' = "fit" => disk' = {}
      ]_trainVars

\* fit failed after some steps of a run that was to save its model
C12_Witness ==
    /\ error = "fit"
    /\ pcT = "raised"
    /\ stepsDone > 0
    /\ Truthy(args.output_dir)
    /\ disk = {}
    /\ events = <<"build", "compile">>

\* C17: the decoder loop zip(up_stack, reversed(skips[:-1])) pairs block k
\* with the k-th deepest of the four shallower encoder outputs, each used
\* once; the deepest output is the initial x and never a concatenated skip;
\* the concatenations are named expand_0 .. expand_3; a model that is built
\* has run exactly four iterations.
C17_DecoderLoop ==
    LET outputs == down_stack_outputs(args.input_shape)
        n == Len(layer_names)
    IN  /\ Len(decoder) <= 4
        /\ \A k \in 1..Len(decoder) :
              /\ decoder[k].up = up_stack[k].name
              /\ decoder[k].skip = outputs[n - k]
              /\ decoder[k].skip # outputs[n]
              /\ decoder[k].concat = "expand_" \o ToString(k - 1)
        /\ \A j, k \in 1..Len(decoder) :
              j # k => /\ decoder[j].concat # decoder[k].concat
                       /\ decoder[j].up # decoder[k].up
                       /\ decoder[j].skip # decoder[k].skip
        /\ Len(decoder) >= 1 => decoder[1].x_in = outputs[n]
        /\ model.built =>
              /\ Len(decoder) = 4
              /\ {decoder[k].concat : k \in 1..4} =
                    {"expand_0", "expand_1", "expand_2", "expand_3"}
              /\ {decoder[k].skip : k \in 1..4} = {outputs[k] : k \in 1..4}
              /\ {decoder[k].up : k \in 1..4} =
                    {up_stack[k].name : k \in 1..Len(up_stack)}

\* the loop has just run its fourth iteration
C17_Witness ==
    /\ pcT = "decoder"
    /\ idx = 4
    /\ Len(decoder) = 4
    /\ decoder[4].concat = "expand_3"
    /\ decoder[4].skip = <<64, 64, 96>>


(***************************************************************************)
(* Properties of create_mask                                               *)
(***************************************************************************)
\* C15: create_mask returns, for the first element of the batch only, a mask
\* of shape height x width x 1 whose pixel holds the index of the channel
\* with the highest score; the index is in 0..C-1 and, when several channels
\* share the highest score, it is the lowest of them.
C15_CreateMask ==
    pcP = "displayed" =>
        LET first == pred_mask[1]
        IN  /\ Len(displayed) = Len(first)
            /\ \A i \in 1..Len(first) :
                  /\ Len(displayed[i]) = Len(first[i])
                  /\ \A j \in 1..Len(first[i]) :
                        LET scores == first[i][j]
                            C == Len(scores)
                        IN  /\ Len(displayed[i][j]) = 1
                            /\ displayed[i][j][1] \in 0..(C - 1)
                            /\ \A k \in 1..C :
                                  scores[k] <= scores[displayed[i][j][1] + 1]
                            /\ \A k \in 1..displayed[i][j][1] :
                                  scores[k] < scores[displayed[i][j][1] + 1]

\* a batch of two different elements whose first has a tie between the
\* channels 1 and 2 above channel 0; the mask shows 1
C15_Witness ==
    /\ pcP = "displayed"
    /\ Len(pred_mask) = 2
    /\ pred_mask[1][1][1] = <<0, 1, 1>>
    /\ pred_mask[2][1][1] = <<1, 0, -1>>
    /\ displayed = << << <<1>> >> >>


(***************************************************************************)
(* Properties of the pipelines of create_train_test_datasets               *)
(***************************************************************************)
\* C18: in train.py the cache sits after the preprocessing and before the
\* augmentation: what cache() holds is read_and_preprocess of the source
\* element, un-augmented; every element delivered, in every pass, has met a
\* draw of its own and is the preprocessed element mirrored or not by that
\* draw alone, so a flip of an earlier pass does not show in a later one.
C18_CacheBeforeAugment ==
    /\ [][ (dsVariant = "train.py" /\ split = "train" /\ cached' # cached) =>
              cached' = [k \in DOMAIN cached \cup {cur} |->
                            IF k = cur THEN read_and_preprocess(source[cur])
                            ELSE cached[k]] ]_vars
    /\ []( (dsVariant = "train.py" /\ split = "train" /\ Delivered) =>
              /\ udraw \in PassDraws
              /\ cur \in DOMAIN cached
              /\ IF FlipDecision(dsVariant, udraw)
                 THEN elem = <<flip_left_right(cached[cur][1]),
                               flip_left_right(cached[cur][2])>>
                 ELSE elem = cached[cur] )

\* in its second pass an element is delivered unflipped after it was
\* delivered flipped in the first
C18_Witness ==
    /\ dsVariant = "train.py"
    /\ split = "train"
    /\ pass = 2
    /\ Delivered
    /\ appearances[cur] = {TRUE, FALSE}
    /\ ~FlipDecision(dsVariant, udraw)
    /\ elem = cached[cur]
    /\ elem # <<flip_left_right(cached[cur][1]), flip_left_right(cached[cur][2])>>

\* C19: in train.py the evaluation data is never augmented: an element of
\* test_ds is read_and_preprocess of its source element, no draw is made for
\* it; every element of train_ds has passed through augment.
C19_TestNotAugmented ==
    dsVariant = "train.py" =>
        /\ split = "test" =>
              /\ udraw = NoDraw
              /\ \A k \in DOMAIN appearances : appearances[k] = {}
              /\ Delivered => elem = read_and_preprocess(source[cur])
        /\ (split = "train" /\ Delivered) =>
              /\ udraw \in PassDraws
              /\ appearances[cur] # {}

\* the second element of the test data of train.py is delivered
C19_Witness ==
    /\ dsVariant = "train.py"
    /\ split = "test"
    /\ Delivered
    /\ cur = 2
    /\ elem[2].h = IMG_SIZE
    /\ todo = {}


(***************************************************************************)
(* Properties of the batches fit draws                                     *)
(***************************************************************************)
\* C16: training and validation never run out of data, in the notebook and
\* in train.py: the training dataset is batched and then repeated, so every
\* training step of every epoch gets its batch (a fit that returns has drawn
\* epochs * steps_per_epoch batches); validation_steps * batch_size does not
\* exceed the test examples, so validation_steps is at most the number of
\* batches of one pass over the test dataset and every validation step gets
\* its batch.
C16_NeverOutOfData ==
    /\ pcB # "out of data"
    /\ \A v \in Variants :
          LET stages == TrainStages(v)
          IN  /\ HasStage(stages, "batch")
              /\ HasStage(stages, "repeat()")
              /\ StageIndex(stages, "batch") < StageIndex(stages, "repeat()")
    /\ pcB \notin {"idle", "steps"} =>
          /\ train_steps = num_examples.train \div batch_size
          /\ validation_steps = num_examples.test \div batch_size
          /\ validation_steps * batch_size <= num_examples.test
          /\ validation_steps
                <= BatchesPerPass(num_examples.test, batch_size)
          /\ val_step <= validation_steps
          /\ drawn = (epoch - 1) * train_steps + step
    /\ pcB = "returned" => drawn = epochs * train_steps

\* a fit of train.py has returned whose training data was passed over more
\* than once, with a partial last batch in the training and the test data
C16_Witness ==
    /\ pcB = "returned"
    /\ bVariant = "train.py"
    /\ batch_size = 2
    /\ num_examples = [train |-> 5, test |-> 3]
    /\ epochs = 2
    /\ drawn = 4
    /\ train_passes = 2
    /\ validation_steps = 1


(***************************************************************************)
(* Properties of the submission of the custom job                          *)
(***************************************************************************)
Count(c, seq) == Cardinality({k \in 1..Len(seq) : seq[k] = c})

IsSubmissionStep(c) ==
    c \in {"writefile train.py", "writefile Dockerfile", "builds submit",
           "CustomJob", "run"}

\* C11: the submission is ordered: train.py and the Dockerfile are written,
\* then the image is built and pushed under TRAINING_CONTAINER_IMAGE_URI,
\* then the custom job is created and run; the one worker pool of the job
\* names exactly that image, which is in the registry and was built from the
\* two files, has replica_count 1 and one accelerator; no more than one job
\* is submitted.
C11_SubmissionOrder ==
    /\ IsPrefix(SelectSeq(cloudLog, IsSubmissionStep),
                << "writefile train.py", "writefile Dockerfile",
                   "builds submit", "CustomJob", "run" >>)
    /\ Len(jobs) <= 1
    /\ jobState # "none" => Len(jobs) = 1
    /\ \A k \in 1..Len(jobs) :
          LET pools == jobs[k].worker_pool_specs
          IN  /\ Len(pools) = 1
              /\ pools[1].replica_count = 1
              /\ pools[1].machine_spec.accelerator_count = 1
              /\ pools[1].container_spec.image_uri
                    = kernel.TRAINING_CONTAINER_IMAGE_URI
              /\ pools[1].container_spec.image_uri = ImageUri(account.project)
              /\ [uri |-> pools[1].container_spec.image_uri,
                  files |-> {"train.py", "Dockerfile"}] \in registry

\* the job has run to its end in a project that held an image and a
\* directory of an earlier run
C11_Witness ==
    /\ pcC = CloudEnd
    /\ jobState = "succeeded"
    /\ Len(jobs) = 1
    /\ Count("run", cloudLog) = 1
    /\ Cardinality(registry) = 1

\* C13: the job passes --output_dir (OUTPUT_DIR, never empty) and --epochs
\* (EPOCHS as it is when the job is created, 50) to train_evaluate, whose
\* other parameters take their defaults (batch_size 64, input_shape
\* [128,128,3], output_channels 3); a run whose fit completes is at the
\* 'if output_dir' branch with a true condition, and when train_evaluate
\* returns the model is saved at OUTPUT_DIR.
C13_JobArguments ==
    /\ \A k \in 1..Len(jobs) :
          jobs[k].worker_pool_specs[1].container_spec.args =
             << [flag |-> "output_dir", value |-> kernel.OUTPUT_DIR],
                [flag |-> "epochs", value |-> "50"] >>
    /\ pcT # "idle" =>
          /\ args.output_dir = kernel.OUTPUT_DIR
          /\ args.output_dir = OutputDir(account.project, account.now)
          /\ Truthy(args.output_dir)
          /\ args.epochs = 50
          /\ args.epochs = kernel.EPOCHS
          /\ args.batch_size = 64
          /\ args.input_shape = <<128, 128, 3>>
          /\ args.output_channels = 3
          /\ pcT = "done" =>
                disk = {[path |-> kernel.OUTPUT_DIR, weights |-> weights]}
          /\ (pcT = "raised" /\ "fit" \in Range(events)) => error = "save"
          /\ disk # {} => "fit" \in Range(events)

\* the job's fit has run its 50 epochs and the model is at OUTPUT_DIR
C13_Witness ==
    /\ pcT = "done"
    /\ jobState = "running"
    /\ stepsDone = 50
    /\ events = <<"build", "compile", "fit", "save">>
    /\ disk = {[path |-> "gs://asl-lab/pets/models/20240131093000",
                weights |-> weights]}

\* C14: the staging-bucket cell makes sure the bucket exists and creates it
\* only if needed: after a run of the cell the bucket STAGING_BUCKET exists;
\* the run issues 'gsutil mb' exactly when the bucket did not exist before
\* it, and it creates nothing else; a second run issues no create.
C14_BucketEnsured ==
    [][ bucketRuns' = bucketRuns + 1 =>
           LET name == BucketOf(environ.STAGING_BUCKET)
               mb == Count("gsutil mb", cloudLog')
                        - Count("gsutil mb", cloudLog)
           IN  /\ environ.STAGING_BUCKET = StagingBucket(account.project)
               /\ name \in buckets'
               /\ buckets' = buckets \cup {name}
               /\ mb \in {0, 1}
               /\ mb = 1 <=> name \notin buckets
               /\ bucketRuns >= 1 => mb = 0
      ]_vars

\* the cell has run twice and created the bucket once, next to two buckets
\* whose names are close to its name
C14_Witness ==
    /\ bucketRuns = 2
    /\ Count("gsutil mb", cloudLog) = 1
    /\ Count("gsutil ls", cloudLog) = 2
    /\ account.project = <<"asl">>
    /\ buckets = { <<"asl", "-", "staging">>,
                   <<"asl", "-", "staging", "-", "old">>,
                   <<"my", "-", "asl", "-", "staging">> }
    /\ exists = { <<"gs", "://", "asl", "-", "staging", "/">> }


====
